---- MODULE Spec2Model ----
(***************************************************************************)
(* Model of src/tunnel_monitor.py: the TunnelMonitor object, the           *)
(* background monitoring thread, the main (tray) thread running start()    *)
(* and the menu callbacks, and the short-lived threads the menu callbacks  *)
(* spawn for "Check Now" and "Restart Tunnel".                             *)
(*                                                                         *)
(* Every thread step is one atomic action.  check_tunnel_status writes the *)
(* three fields of the shared observation in three separate statements     *)
(* with no lock, so each write is a step of its own and other threads may  *)
(* run between them.  External commands (tunnel status, tunnel service     *)
(* restart) are nondeterministic choices of their outcome.                 *)
(***************************************************************************)
EXTENDS Integers, FiniteSets, Sequences, TLC

\* ---------------------------------------------------------------- constants
CHECK_INTERVAL == 30
RETRY_DELAY == 10
MAX_RETRIES == 3
SETTLE_DELAY == 5

\* ------------------------------------------------------------------- bounds
\* number of threads the menu callbacks may have alive at the same time
MaxManual == 1

Manual == 1..MaxManual
ManualThreads == {<<"manual", i>> : i \in Manual}
\* writer marks: nobody has written yet / written by a failing probe
NoWriter == <<"init", 0>>
FailWriter == <<"fail", 0>>
\* self.last_check_time = None
NoStamp == <<"None", 0>>
MainThread == <<"main", 0>>
LoopThread == <<"loop", 0>>
Threads == {MainThread, LoopThread} \cup ManualThreads

\* names the status command may report; 'Unknown' is the default of line 74
Names == {"Unknown", "dev-box"}

VARIABLES
  is_running,        \* self.is_running
  tunnel_connected,  \* self.tunnel_connected
  tunnel_name,       \* self.tunnel_name
  last_check_time,   \* self.last_check_time: NoStamp, or the moment
                     \* datetime.now() gave to the probe of a thread, named
                     \* by that thread
  icon,              \* self.icon: "None", or the colour of the icon's image
  retry_count,       \* the local retry_count of monitoring_loop
  icon_color,        \* the local icon_color of start()
  pc,                \* the position of every thread
  out,               \* per thread: the result of its pending status command
  ret,               \* per thread: the value its last call returned
  caller,            \* per thread: who called check_tunnel_status
  task,              \* per manual thread: "check" or "restart"
  tick,              \* history: what the current tick of the loop has done
  streak,            \* history: consecutive ticks with a failed recovery
  streakCmds,        \* history: restart commands the loop issued in the
                     \* ticks of the streak
  failedRecs,        \* history: failed automatic recoveries since a success
  cmdsSince,         \* history: restart commands the loop has issued since
                     \* the last success it saw
  call,              \* history, per thread: how the restart command and
                     \* the probe of its call in progress ended, until the
                     \* caller uses the result
  writer             \* history: the probe that last wrote tunnel_connected
                     \* and tunnel_name, named by its thread

vars == <<is_running, tunnel_connected, tunnel_name, last_check_time, icon,
          retry_count, icon_color, pc, out, ret, caller, task, tick,
          streak, streakCmds, failedRecs, cmdsSince, call, writer>>

shared == <<tunnel_connected, tunnel_name, last_check_time, writer>>
hist == <<tick, streak, streakCmds, failedRecs, cmdsSince>>

NoOut == [kind |-> "none", conn |-> FALSE, name |-> "Unknown"]

\* the outcomes of subprocess.run([code, 'tunnel', 'status']) and of the
\* parsing that follows it (lines 61-102)
ProbeOutcomes ==
  {[kind |-> "ok", conn |-> c, name |-> n] : c \in BOOLEAN, n \in Names}
  \cup {[kind |-> k, conn |-> FALSE, name |-> "Unknown"] :
          k \in {"nonzero", "timeout", "malformed", "other"}}

\* the outcomes of subprocess.run([code, 'tunnel', 'service', 'restart'])
RestartOutcomes == {"ok", "nonzero", "fault"}

NoTick == [probe |-> "none", rec |-> "none", cmds |-> 0, emit |-> "none",
           prev |-> 0, waited |-> 0, branch |-> "none", fault |-> FALSE,
           own |-> "none", n |-> 0]

NoCall == [cmd |-> "none", probe |-> "none"]

Min(a, b) == IF a < b THEN a ELSE b

\* ------------------------------------------------------ pieces of the code
\* line 134: while self.is_running
LoopContinuesAlways(running) == TRUE
LoopContinues(running) == running

\* line 144: if retry_count < MAX_RETRIES
CanRetryOffByOne(rc) == rc <= MAX_RETRIES
CanRetry(rc) == rc < MAX_RETRIES

\* line 139: retry_count = 0
CountKept(rc) == rc
CountAfterConnected(rc) == 0

\* line 148: retry_count = 0
CountAfterRecovered(rc) == 0

\* line 150: retry_count += 1
CountNotIncremented(rc) == rc
CountAfterFailed(rc) == rc + 1

\* lines 88, 93, 97, 101: self.tunnel_connected = False in the branch of a
\* non-zero exit and in each of the three exception handlers
MalformedKeepsConnected(kind) ==
  IF kind = "malformed" THEN tunnel_connected ELSE FALSE
FailedProbeConnected(kind) == FALSE

\* lines 89, 94, 98, 102: return False
FailedProbeReturn(kind) == FALSE

\* lines 58-128: check_tunnel_status and restart_tunnel have no statement
\* that reaches retry_count, a local of monitoring_loop (line 132), in
\* whatever thread they run
ManualCallResets(t, rc) == IF t \in ManualThreads THEN 0 ELSE rc
CountAfterCall(t, rc) == rc

\* line 85: return is_connected, the value parsed from clean output
CleanOutputReturnsTrue(o) == TRUE
ProbeReturn(o) == o.conn

\* line 118: if result.returncode == 0; a timeout or another fault of the
\* command goes to the handler of line 126
AnyExitAccepted(r) == r # "fault"
RestartAccepted(r) == r = "ok"

\* lines 158-160: the handler of a fault inside a tick sleeps and loops
AfterFaultExit == "done"
AfterFault == "sleep_fault"

\* lines 136-138: the loop tests the local is_connected, the value its own
\* call of check_tunnel_status returned
TickConnectedShared == tunnel_connected
TickConnected == ret[LoopThread]

\* lines 138-142: update_icon('green') if is_connected, else update_icon('red')
TickColor(connected) == IF connected THEN "green" ELSE "red"

\* line 224: 'green' if self.tunnel_connected else 'red'
IconColorFor(conn) == IF conn THEN "green" ELSE "red"

\* where restart_tunnel returns to: line 146 in the loop, line 192 in the
\* thread of the menu's restart(), which notifies and ends
AfterRestart(t) == IF t = LoopThread THEN "restart_ret" ELSE "m_done"

\* where check_tunnel_status returns to
AfterProbe(t) ==
  CASE caller[t] = "tick" -> "branch"
    [] caller[t] = "restart" -> AfterRestart(t)
    [] caller[t] = "check" -> "m_done"
    [] caller[t] = "start" -> "start_thread"

\* --------------------------------------------------------------------- Init
Init ==
  /\ is_running = FALSE
  /\ tunnel_connected = FALSE
  /\ tunnel_name = "Unknown"
  /\ last_check_time = NoStamp
  /\ icon = "None"
  /\ retry_count = 0
  /\ icon_color = "none"
  /\ pc = [t \in Threads |->
             IF t = MainThread THEN "init" ELSE "idle"]
  /\ out = [t \in Threads |-> NoOut]
  /\ ret = [t \in Threads |-> FALSE]
  /\ caller = [t \in Threads |-> "none"]
  /\ task = [t \in ManualThreads |-> "none"]
  /\ tick = NoTick
  /\ streak = 0
  /\ streakCmds = 0
  /\ failedRecs = 0
  /\ cmdsSince = 0
  /\ call = [t \in Threads |-> NoCall]
  /\ writer = [conn |-> NoWriter, name |-> NoWriter]

\* ------------------------------------------------------ check_tunnel_status
\* line 136: is_connected = self.check_tunnel_status(); the history of the
\* tick records what its own probe returned
OwnProbe(t, result) ==
  IF t = LoopThread /\ caller[t] = "tick"
    THEN [tick EXCEPT !.own = IF result THEN "up" ELSE "down"]
    ELSE tick

\* lines 61-76 on clean output: the status command has exited with code 0,
\* its output is parsed and tunnel_connected is written; lines 86-102 on a
\* failure: tunnel_connected = False and return False
ProbeRun(t) ==
  /\ pc[t] = "probe_run"
  /\ \E o \in ProbeOutcomes :
       IF o.kind = "ok"
         THEN /\ tunnel_connected' = o.conn
              /\ writer' = [writer EXCEPT !.conn = t]
              /\ out' = [out EXCEPT ![t] = o]
              /\ pc' = [pc EXCEPT ![t] = "probe_wn"]
              /\ ret' = ret
              /\ UNCHANGED <<call, tick>>
         ELSE /\ tunnel_connected' = FailedProbeConnected(o.kind)
              /\ writer' = [writer EXCEPT !.conn = FailWriter]
              /\ out' = out
              /\ pc' = [pc EXCEPT ![t] = AfterProbe(t)]
              /\ ret' = [ret EXCEPT ![t] = FailedProbeReturn(o.kind)]
              /\ call' = [call EXCEPT ![t].probe = o.kind]
              /\ tick' = OwnProbe(t, FailedProbeReturn(o.kind))
  /\ retry_count' = CountAfterCall(t, retry_count)
  /\ UNCHANGED <<is_running, tunnel_name, last_check_time, icon, icon_color,
                 caller, task, streak, streakCmds, failedRecs, cmdsSince>>

\* line 77
ProbeWriteName(t) ==
  /\ pc[t] = "probe_wn"
  /\ tunnel_name' = out[t].name
  /\ writer' = [writer EXCEPT !.name = t]
  /\ pc' = [pc EXCEPT ![t] = "probe_wt"]
  /\ UNCHANGED <<is_running, tunnel_connected, last_check_time, icon,
                 retry_count, icon_color, out, ret, caller, task, hist,
                 call>>

\* lines 78-85: the time stamp, then return is_connected
ProbeWriteTime(t) ==
  /\ pc[t] = "probe_wt"
  /\ last_check_time' = t
  /\ ret' = [ret EXCEPT ![t] = ProbeReturn(out[t])]
  /\ out' = [out EXCEPT ![t] = NoOut]
  /\ pc' = [pc EXCEPT ![t] = AfterProbe(t)]
  /\ call' = [call EXCEPT ![t].probe = IF out[t].conn THEN "up" ELSE "down"]
  /\ tick' = OwnProbe(t, ProbeReturn(out[t]))
  /\ retry_count' = CountAfterCall(t, retry_count)
  /\ UNCHANGED <<is_running, tunnel_connected, tunnel_name, writer, icon,
                 icon_color, caller, task, streak, streakCmds, failedRecs,
                 cmdsSince>>

\* ----------------------------------------------------------- restart_tunnel
\* lines 110-128: the restart command; on exit code 0 go on to the settle
\* delay, otherwise (non-zero exit, timeout, any fault) return False
RestartRun(t) ==
  /\ pc[t] = "restart_run"
  /\ \E r \in RestartOutcomes :
       /\ call' = [call EXCEPT ![t].cmd = r]
       /\ IF RestartAccepted(r)
            THEN /\ pc' = [pc EXCEPT ![t] = "settle"]
                 /\ ret' = ret
            ELSE /\ pc' = [pc EXCEPT ![t] = AfterRestart(t)]
                 /\ ret' = [ret EXCEPT ![t] = FALSE]
  /\ tick' = IF t = LoopThread
               THEN [tick EXCEPT !.cmds = @ + 1]
               ELSE tick
  /\ streakCmds' = IF t = LoopThread
                     THEN Min(streakCmds + 1, MAX_RETRIES + 1)
                     ELSE streakCmds
  /\ cmdsSince' = IF t = LoopThread
                    THEN Min(cmdsSince + 1, MAX_RETRIES + 1)
                    ELSE cmdsSince
  /\ retry_count' = CountAfterCall(t, retry_count)
  /\ UNCHANGED <<is_running, shared, icon, icon_color, out, caller, task,
                 streak, failedRecs>>

\* lines 120-121: time.sleep(5), then the confirming probe is called
Settle(t) ==
  /\ pc[t] = "settle"
  /\ pc' = [pc EXCEPT ![t] = "probe_run"]
  /\ caller' = [caller EXCEPT ![t] = "restart"]
  /\ tick' = IF t = LoopThread
               THEN [tick EXCEPT !.waited = @ + SETTLE_DELAY]
               ELSE tick
  /\ UNCHANGED <<is_running, shared, icon, retry_count, icon_color, out, ret,
                 task, streak, streakCmds, failedRecs, cmdsSince, call>>

\* ---------------------------------------------------------- monitoring_loop
\* the streak of failed-recovery ticks restarts when the counter is 0
StreakBase(rc) == IF rc = 0 THEN 0 ELSE 0 - 1

\* line 134: the while test; a passed test starts a tick, whose first
\* statement (line 136) calls check_tunnel_status; the history tells the
\* first tick (n = 1) from the later ones (n = 2)
LoopTest ==
  /\ pc[LoopThread] = "while"
  /\ IF LoopContinues(is_running)
       THEN /\ pc' = [pc EXCEPT ![LoopThread] = "probe_run"]
            /\ caller' = [caller EXCEPT ![LoopThread] = "tick"]
            /\ tick' = [NoTick EXCEPT !.prev = retry_count,
                                      !.n = Min(tick.n + 1, 2)]
       ELSE /\ pc' = [pc EXCEPT ![LoopThread] = "done"]
            /\ UNCHANGED <<caller, tick>>
  /\ UNCHANGED <<is_running, shared, icon, retry_count, icon_color, out, ret,
                 task, streak, streakCmds, failedRecs, cmdsSince, call>>

\* lines 138-145 and 152-153: the branch on the probe's result, with
\* update_icon (lines 162-165) inlined: it does nothing while self.icon is
\* None, and a fault raised while it draws or sets the image is caught at
\* line 158
LoopBranch ==
  /\ pc[LoopThread] = "branch"
  /\ \E fault \in (IF icon = "None" THEN {FALSE} ELSE BOOLEAN) :
       LET connected == TickConnected
           color == TickColor(connected)
           probed == [tick EXCEPT !.probe = IF connected THEN "up" ELSE "down",
                                  !.emit = color, !.fault = fault]
       IN
       /\ icon' = IF icon = "None" \/ fault THEN icon ELSE color
       /\ IF connected
            THEN /\ retry_count' = CountAfterConnected(retry_count)
                 /\ tick' = [probed EXCEPT !.branch = "connected"]
                 /\ streak' = StreakBase(retry_count')
                 /\ streakCmds' = 0
                 /\ failedRecs' = 0
                 /\ cmdsSince' = 0
                 /\ pc' = [pc EXCEPT ![LoopThread] =
                             IF fault THEN AfterFault ELSE "sleep_interval"]
            ELSE /\ retry_count' = retry_count
                 /\ failedRecs' = failedRecs
                 /\ cmdsSince' = cmdsSince
                 /\ IF fault
                      THEN /\ tick' = [probed EXCEPT !.branch = "faulted"]
                           /\ streak' = StreakBase(retry_count)
                           /\ streakCmds' = 0
                           /\ pc' = [pc EXCEPT ![LoopThread] = AfterFault]
                      ELSE IF CanRetry(retry_count)
                        THEN /\ tick' = [probed EXCEPT !.branch = "recovering"]
                             /\ UNCHANGED <<streak, streakCmds>>
                             /\ pc' = [pc EXCEPT ![LoopThread] =
                                         "restart_run"]
                        ELSE /\ tick' = [probed EXCEPT !.branch = "exhausted"]
                             /\ streak' = StreakBase(retry_count)
                             /\ streakCmds' = 0
                             /\ pc' = [pc EXCEPT ![LoopThread] =
                                         "sleep_exhausted"]
  /\ call' = [call EXCEPT ![LoopThread] = NoCall]
  /\ UNCHANGED <<is_running, shared, icon_color, out, ret, caller, task>>

\* lines 146-150: the result of restart_tunnel
LoopAfterRestart ==
  /\ pc[LoopThread] = "restart_ret"
  /\ IF ret[LoopThread]
       THEN /\ retry_count' = CountAfterRecovered(retry_count)
            /\ tick' = [tick EXCEPT !.rec = "ok"]
            /\ streak' = StreakBase(retry_count')
            /\ streakCmds' = 0
            /\ failedRecs' = 0
            /\ cmdsSince' = 0
            /\ pc' = [pc EXCEPT ![LoopThread] = "sleep_interval"]
       ELSE /\ retry_count' = CountAfterFailed(retry_count)
            /\ cmdsSince' = cmdsSince
            /\ tick' = [tick EXCEPT !.rec = "failed"]
            /\ streak' = IF streak >= 0
                           THEN Min(streak + 1, MAX_RETRIES + 1)
                           ELSE streak
            /\ streakCmds' = IF streak >= 0 THEN streakCmds ELSE 0
            /\ failedRecs' = Min(failedRecs + 1, MAX_RETRIES + 1)
            /\ pc' = [pc EXCEPT ![LoopThread] = "sleep_retry"]
  /\ call' = [call EXCEPT ![LoopThread] = NoCall]
  /\ UNCHANGED <<is_running, shared, icon, icon_color, out, ret, caller,
                 task>>

\* a time.sleep(d) of the loop, from position `from` to position `to`
LoopSleep(from, d, to) ==
  /\ pc[LoopThread] = from
  /\ pc' = [pc EXCEPT ![LoopThread] = to]
  /\ tick' = [tick EXCEPT !.waited = @ + d]
  /\ UNCHANGED <<is_running, shared, icon, retry_count, icon_color, out, ret,
                 caller, task, streak, streakCmds, failedRecs, cmdsSince,
                 call>>

\* line 151
SleepRetry == LoopSleep("sleep_retry", RETRY_DELAY, "sleep_interval")
\* line 154
SleepExhausted == LoopSleep("sleep_exhausted", CHECK_INTERVAL, "sleep_interval")
\* line 156
SleepInterval == LoopSleep("sleep_interval", CHECK_INTERVAL, "while")
\* line 160
SleepFault == LoopSleep("sleep_fault", CHECK_INTERVAL, "while")

\* ----------------------------------------------------- start and the menu
\* lines 214-217
Start ==
  /\ pc[MainThread] = "init"
  /\ is_running' = TRUE
  /\ pc' = [pc EXCEPT ![MainThread] = "probe_run"]
  /\ caller' = [caller EXCEPT ![MainThread] = "start"]
  /\ UNCHANGED <<shared, icon, retry_count, icon_color, out, ret, task,
                 hist, call>>

\* lines 220-221, and line 132 in the new thread; the value the initial
\* check returned at line 217 is dropped
StartThread ==
  /\ pc[MainThread] = "start_thread"
  /\ pc[LoopThread] = "idle"
  /\ pc' = [pc EXCEPT ![MainThread] = "pick_color", ![LoopThread] = "while"]
  /\ retry_count' = 0
  /\ ret' = [ret EXCEPT ![MainThread] = FALSE]
  /\ call' = [call EXCEPT ![MainThread] = NoCall]
  /\ UNCHANGED <<is_running, shared, icon, icon_color, out, caller, task,
                 hist>>

\* line 224
PickColor ==
  /\ pc[MainThread] = "pick_color"
  /\ icon_color' = IconColorFor(tunnel_connected)
  /\ pc' = [pc EXCEPT ![MainThread] = "create_icon"]
  /\ UNCHANGED <<is_running, shared, icon, retry_count, out, ret, caller,
                 task, hist, call>>

\* lines 235-245: the icon exists, and icon.run() serves the menu; the local
\* icon_color is not read again
CreateIcon ==
  /\ pc[MainThread] = "create_icon"
  /\ icon' = icon_color
  /\ icon_color' = "none"
  /\ pc' = [pc EXCEPT ![MainThread] = "ui"]
  /\ UNCHANGED <<is_running, shared, retry_count, out, ret, caller, task,
                 hist, call>>

\* lines 183-186: a new thread runs check_tunnel_status
OnCheckNow(m) ==
  /\ pc[MainThread] = "ui"
  /\ pc[m] = "idle"
  /\ pc' = [pc EXCEPT ![m] = "probe_run"]
  /\ caller' = [caller EXCEPT ![m] = "check"]
  /\ task' = [task EXCEPT ![m] = "check"]
  /\ UNCHANGED <<is_running, shared, icon, retry_count, icon_color, out, ret,
                 hist, call>>

\* lines 188-197: a new thread runs restart()
OnRestart(m) ==
  /\ pc[MainThread] = "ui"
  /\ pc[m] = "idle"
  /\ pc' = [pc EXCEPT ![m] = "restart_run"]
  /\ task' = [task EXCEPT ![m] = "restart"]
  /\ UNCHANGED <<is_running, shared, icon, retry_count, icon_color, out, ret,
                 caller, hist, call>>

\* the thread's target has returned: the thread ends
ManualExit(m) ==
  /\ pc[m] = "m_done"
  /\ pc' = [pc EXCEPT ![m] = "idle"]
  /\ ret' = [ret EXCEPT ![m] = FALSE]
  /\ caller' = [caller EXCEPT ![m] = "none"]
  /\ task' = [task EXCEPT ![m] = "none"]
  /\ call' = [call EXCEPT ![m] = NoCall]
  /\ UNCHANGED <<is_running, shared, icon, retry_count, icon_color, out, hist>>

\* lines 206-210
OnQuit ==
  /\ pc[MainThread] = "ui"
  /\ is_running' = FALSE
  /\ pc' = [pc EXCEPT ![MainThread] = "stopped"]
  /\ UNCHANGED <<shared, icon, retry_count, icon_color, out, ret, caller,
                 task, hist, call>>

\* ------------------------------------------------------------ specification
\* the steps of the monitoring thread
LoopNext ==
  \/ LoopTest
  \/ ProbeRun(LoopThread)
  \/ ProbeWriteName(LoopThread)
  \/ ProbeWriteTime(LoopThread)
  \/ LoopBranch
  \/ RestartRun(LoopThread)
  \/ Settle(LoopThread)
  \/ LoopAfterRestart
  \/ SleepRetry
  \/ SleepExhausted
  \/ SleepInterval
  \/ SleepFault

\* the steps of the main thread
MainNext ==
  \/ Start
  \/ ProbeRun(MainThread)
  \/ ProbeWriteName(MainThread)
  \/ ProbeWriteTime(MainThread)
  \/ StartThread
  \/ PickColor
  \/ CreateIcon
  \/ \E m \in ManualThreads : OnCheckNow(m)
  \/ \E m \in ManualThreads : OnRestart(m)
  \/ OnQuit

\* the steps of the threads the menu spawns
ManualNext ==
  \E m \in ManualThreads :
    \/ ProbeRun(m)
    \/ ProbeWriteName(m)
    \/ ProbeWriteTime(m)
    \/ RestartRun(m)
    \/ Settle(m)
    \/ ManualExit(m)

Next == LoopNext \/ MainNext \/ ManualNext

Spec == Init /\ [][Next]_vars

\* every external call and every sleep of the monitoring thread completes
FairSpec == Spec /\ WF_vars(LoopNext)

TypeOK ==
  /\ is_running \in BOOLEAN
  /\ tunnel_connected \in BOOLEAN
  /\ tunnel_name \in Names
  /\ icon \in {"None", "red", "green"}
  /\ retry_count \in Nat
  /\ last_check_time \in Threads \cup {NoStamp}
  /\ icon_color \in {"none", "red", "green"}
  /\ \A t \in Threads : out[t] \in ProbeOutcomes \cup {NoOut}
  /\ ret \in [Threads -> BOOLEAN]
  /\ task \in [ManualThreads -> {"none", "check", "restart"}]
  /\ tick.waited \in Nat /\ tick.cmds \in Nat
  /\ tick.n \in 0..2
  /\ tick.own \in {"none", "up", "down"}
  /\ cmdsSince \in 0..(MAX_RETRIES + 1)
  /\ \A t \in Threads :
       /\ call[t].cmd \in RestartOutcomes \cup {"none"}
       /\ call[t].probe \in {"none", "up", "down", "nonzero", "timeout",
                              "malformed", "other"}

\* ------------------------------------------------------------------- claims
\* the recovery of the current tick has been started and has not returned
RecoveryPending == tick.branch = "recovering" /\ tick.rec = "none"
\* the manual action of thread m has completed
ManualDone(m) == pc[m] = "m_done"

\* C1: in every reachable state the retry counter of the monitoring loop is
\* an integer in 0..MAX_RETRIES, whatever the probes, the recoveries and the
\* manual actions did.
C1_RetryCountInRange == retry_count \in 0..MAX_RETRIES

\* the counter is at its bound, in an exhausted tick, while a manual action
\* has just completed
C1_Witness ==
  /\ retry_count = MAX_RETRIES
  /\ tick.branch = "exhausted"
  /\ \E m \in ManualThreads : ManualDone(m)

\* C2: once a tick's probe has reported connected, and until the next tick
\* starts, the counter is 0, the tick has emitted green, and the loop has
\* issued no restart command in the tick and is not about to.
C2_ConnectedTick ==
  tick.probe = "up" =>
    /\ retry_count = 0
    /\ tick.emit = "green"
    /\ tick.cmds = 0
    /\ pc[LoopThread] \notin {"restart_run", "settle", "restart_ret"}

\* a connected tick that started with the counter at its bound is over
C2_Witness ==
  /\ tick.probe = "up"
  /\ tick.prev = MAX_RETRIES
  /\ retry_count = 0
  /\ pc[LoopThread] = "while"

\* C3: for every N < MAX_RETRIES, after N consecutive ticks, starting from
\* counter 0, whose probe reported disconnected and whose recovery returned
\* false, the counter is N, the loop issued N restart commands in them, and
\* the exhausted branch was not taken and would not be taken now.
C3_FailedStreak ==
  \A N \in 1..(MAX_RETRIES - 1) :
    (streak = N /\ ~RecoveryPending) =>
      /\ retry_count = N
      /\ streakCmds = N
      /\ tick.branch # "exhausted"
      /\ CanRetry(retry_count)

\* two failed ticks in a row from counter 0 are over
C3_Witness ==
  /\ streak = MAX_RETRIES - 1
  /\ tick.rec = "failed"
  /\ pc[LoopThread] = "while"

\* C4 (state part): after MAX_RETRIES failed automatic recoveries without a
\* success in between, every later tick whose probe reported disconnected
\* issues no restart command, leaves the counter at MAX_RETRIES and, unless
\* update_icon raised, takes the exhausted branch.
C4_ExhaustedNow ==
  (failedRecs = MAX_RETRIES /\ tick.probe = "down" /\ tick.rec = "none") =>
     /\ tick.cmds = 0
     /\ retry_count = MAX_RETRIES
     /\ pc[LoopThread] \notin {"restart_run", "settle", "restart_ret"}
     /\ (~tick.fault => tick.branch = "exhausted")

\* C4: the statement above holds in every state, and the loop stops being
\* exhausted only in a step that records a connected probe.
C4_ExhaustedStays ==
  /\ [](C4_ExhaustedNow)
  /\ [][(failedRecs = MAX_RETRIES /\ failedRecs' # MAX_RETRIES)
          => tick'.probe = "up"]_vars

\* an exhausted tick after MAX_RETRIES failed recoveries is over
C4_Witness ==
  /\ failedRecs = MAX_RETRIES
  /\ tick.branch = "exhausted"
  /\ tick.cmds = 0
  /\ pc[LoopThread] = "while"

\* C5 (as claimed): when a manual restart has completed with success, the
\* retry counter of the loop is 0.
C5_ManualSuccessResets ==
  \A m \in ManualThreads :
    (ManualDone(m) /\ task[m] = "restart" /\ ret[m]) => retry_count = 0

\* C6 (as claimed): in a tick that took the exhausted branch, the loop has
\* waited exactly one CHECK_INTERVAL when it is back at the while test.
C6_ExhaustedWaitsOnce ==
  (tick.branch = "exhausted" /\ pc[LoopThread] = "while") =>
     tick.waited = CHECK_INTERVAL

\* the current tick has seen a disconnected or failed probe or a fault
TickFailed ==
  /\ pc[LoopThread] \notin {"idle", "done"}
  /\ tick.fault \/ tick.probe = "down"
\* a new tick has passed the while test and is about to probe
NewTick ==
  /\ pc[LoopThread] = "probe_run"
  /\ caller[LoopThread] = "tick"
  /\ tick.branch = "none"

\* C7: the loop leaves its cycle only when is_running is false, and after a
\* disconnected or failed probe, a failed recovery or a fault inside a tick
\* it always eventually starts a new tick, unless quit was requested.
C7_LoopSurvivesErrors ==
  /\ [][(pc[LoopThread] # "done" /\ pc'[LoopThread] = "done")
          => ~is_running]_vars
  /\ (TickFailed ~> (NewTick \/ ~is_running))

\* a tick has ended in the fault handler, the loop has slept and is back at
\* the while test with quit not requested
C7_Witness ==
  /\ tick.fault
  /\ pc[LoopThread] = "while"
  /\ is_running

\* on_quit has run
Quit == pc[MainThread] = "stopped"

\* C8: after quit the loop passes no while test (a tick is in progress from
\* the while test that started it), it issues a restart command only in a
\* tick that was already recovering, it eventually ends, and is_running is
\* true from start() to quit and false ever after.
C8_QuitStopsLoop ==
  /\ [][Quit => ~(pc[LoopThread] = "while" /\ pc'[LoopThread] # "while"
                    /\ pc'[LoopThread] # "done")]_vars
  /\ [][Quit => (tick'.cmds = tick.cmds \/ tick.branch = "recovering")]_vars
  /\ [](pc[MainThread] \notin {"init", "stopped"} => is_running)
  /\ [](Quit => ~is_running)
  /\ (Quit ~> pc[LoopThread] = "done")

\* quit was requested in the middle of a tick and the loop has ended
C8_Witness ==
  /\ Quit
  /\ pc[LoopThread] = "done"
  /\ tick.branch # "none"

\* C9 (as claimed): when a manual action that probed has completed, the
\* indicator has the colour of its probe's result.
C9_ManualSetsIcon ==
  \A m \in ManualThreads :
    (ManualDone(m) /\ caller[m] \in {"check", "restart"}) =>
       icon = TickColor(ret[m])

\* no call of check_tunnel_status is between its writes
NoProbeWriting == \A t \in Threads : pc[t] \notin {"probe_wn", "probe_wt"}

\* C10 (as claimed): whenever no probe is between its writes and the last
\* write of tunnel_connected came from clean output, the three stored fields
\* come from one probe.
C10_TripleFromOneProbe ==
  (NoProbeWriting /\ writer.conn \in Threads) =>
     /\ writer.name = writer.conn
     /\ last_check_time = writer.conn

\* the four ways a probe fails: lines 86, 91, 95 and 99
FailKinds == {"nonzero", "timeout", "malformed", "other"}

\* a step in which the status command of thread t, or the parsing of its
\* output, fails: the call leaves line 61 without reaching the write of the
\* name
ProbeFails(t) ==
  /\ pc[t] = "probe_run"
  /\ pc'[t] \notin {"probe_run", "probe_wn"}

\* C11: a probe that fails, by a non-zero exit, a timeout, unparseable
\* output or any other fault, returns false to its caller at the place the
\* call was made (nothing is raised), sets tunnel_connected to false and
\* leaves tunnel_name and last_check_time as they were.
C11_FailedProbe ==
  /\ [](\A t \in Threads :
          call[t].probe \in FailKinds =>
            /\ ~ret[t]
            /\ pc[t] = AfterProbe(t)
            /\ pc[t] # AfterFault)
  /\ [][\A t \in Threads :
          ProbeFails(t) =>
            /\ call'[t].probe \in FailKinds
            /\ ~tunnel_connected'
            /\ tunnel_name' = tunnel_name
            /\ last_check_time' = last_check_time]_vars

\* the probe of the tick has met unparseable output and has returned to the
\* loop; the name an earlier probe stored from clean output is still there
C11_Witness ==
  /\ pc[LoopThread] = "branch"
  /\ call[LoopThread].probe = "malformed"
  /\ ~ret[LoopThread]
  /\ ~tunnel_connected
  /\ tunnel_name = "dev-box"

\* the restart command of the call in progress of thread t has failed
RestartFailed(t) == call[t].cmd \in {"nonzero", "fault"}

\* C12: when the restart command fails (non-zero exit, timeout or another
\* fault) restart_tunnel returns false at once: no confirming probe is made,
\* the settle delay is not waited, and the step leaves tunnel_connected,
\* tunnel_name and last_check_time as they were.
C12_FailedRestart ==
  /\ [](\A t \in Threads :
          RestartFailed(t) =>
            /\ ~ret[t]
            /\ pc[t] = AfterRestart(t)
            /\ call[t].probe = "none"
            /\ (t = LoopThread => tick.waited = 0))
  /\ [][\A t \in Threads :
          (RestartFailed(t)' /\ ~RestartFailed(t)) =>
            /\ tunnel_connected' = tunnel_connected
            /\ tunnel_name' = tunnel_name
            /\ last_check_time' = last_check_time]_vars

\* the restart command of the loop has exited with a non-zero code and
\* restart_tunnel has returned; the observation is still the one the probe
\* of the tick stored
C12_Witness ==
  /\ pc[LoopThread] = "restart_ret"
  /\ call[LoopThread].cmd = "nonzero"
  /\ ~ret[LoopThread]
  /\ tick.cmds = 1
  /\ last_check_time = LoopThread
  /\ writer.conn = LoopThread

\* restart_tunnel has returned to thread t and its result is not used yet
RestartReturned(t) == call[t].cmd # "none" /\ pc[t] = AfterRestart(t)

\* C13: restart_tunnel returns true exactly when its restart command exited
\* with code 0 and the confirming probe made after it reported connected; an
\* accepted command whose confirming probe failed or reported not connected
\* gives false.
C13_RecoveryResult ==
  \A t \in Threads :
    RestartReturned(t) =>
      (ret[t] <=> (call[t].cmd = "ok" /\ call[t].probe = "up"))

\* the loop's recovery has returned false after an accepted command whose
\* confirming probe timed out, and a manual restart has returned true after
\* an accepted command and a connected confirming probe
C13_Witness ==
  /\ pc[LoopThread] = "restart_ret"
  /\ call[LoopThread] = [cmd |-> "ok", probe |-> "timeout"]
  /\ ~ret[LoopThread]
  /\ \E m \in ManualThreads :
       /\ ManualDone(m)
       /\ call[m] = [cmd |-> "ok", probe |-> "up"]
       /\ ret[m]

\* the positions inside check_tunnel_status
ProbePositions == {"probe_run", "probe_wn", "probe_wt"}
\* thread t is inside the confirming probe of restart_tunnel
Confirming(t) == pc[t] \in ProbePositions /\ caller[t] = "restart"

\* C14: in every tick the loop's own probe has returned, and returned
\* disconnected, before the loop is at its restart command or has issued
\* one; while the tick's probe runs no restart command of the tick has been
\* issued; and a confirming probe runs only after the restart command has
\* returned with code 0 and, in the loop, after the settle delay and nothing
\* else has been waited.
C14_TickOrder ==
  /\ (tick.cmds > 0 \/ pc[LoopThread] \in {"restart_run", "settle"}) =>
        /\ tick.own = "down"
        /\ tick.probe = "down"
  /\ (pc[LoopThread] \in ProbePositions /\ caller[LoopThread] = "tick") =>
        /\ tick.cmds = 0
        /\ tick.own = "none"
  /\ \A t \in Threads :
       /\ pc[t] = "settle" => call[t] = [cmd |-> "ok", probe |-> "none"]
       /\ Confirming(t) => call[t] = [cmd |-> "ok", probe |-> "none"]
  /\ Confirming(LoopThread) =>
        /\ tick.cmds = 1
        /\ tick.waited = SETTLE_DELAY

\* the loop is about to run the confirming probe: its own probe reported
\* disconnected, its restart command was accepted, the settle delay is over
C14_Witness ==
  /\ pc[LoopThread] = "probe_run"
  /\ caller[LoopThread] = "restart"
  /\ tick.own = "down"
  /\ tick.cmds = 1
  /\ tick.waited = SETTLE_DELAY

\* the tick ended in Connected: its probe reported connected, or its
\* automatic recovery returned true
TickEndedConnected == tick.probe = "up" \/ tick.rec = "ok"
\* the work of the tick is done and the loop is in the sleep of line 156
InterTickWait == pc[LoopThread] = "sleep_interval"

\* C15 (as claimed): whenever the loop is in its inter-tick wait and the
\* indicator shows what the tick's update_icon set, the indicator is green
\* if the tick ended in Connected and red otherwise.
C15_IndicatorAtTickEnd ==
  (InterTickWait /\ icon # "None" /\ icon = tick.emit) =>
     icon = TickColor(TickEndedConnected)

\* the loop is at its restart command
LoopRestarting == pc[LoopThread] = "restart_run"

\* C16: the loop issues at most MAX_RETRIES restart commands between two
\* successes it sees (a tick probe reporting connected or an automatic
\* recovery returning true); if from some point on it sees no success, it is
\* from some point on never at a restart command again; and after it has
\* used its MAX_RETRIES commands it still starts a new tick with a probe,
\* unless quit is requested.
C16_BoundedRecovery ==
  /\ [](cmdsSince <= MAX_RETRIES)
  /\ (<>[](~TickEndedConnected) => <>[](~LoopRestarting))
  /\ ((cmdsSince = MAX_RETRIES /\ pc[LoopThread] # "done")
        ~> (NewTick \/ Quit))

\* the loop has used its MAX_RETRIES restart commands without a success,
\* has gone through a tick without a restart command, and starts to probe
\* again
C16_Witness ==
  /\ NewTick
  /\ cmdsSince = MAX_RETRIES
  /\ retry_count = MAX_RETRIES
  /\ streak < 0

\* a step of the loop at one of the two places of a tick that assign
\* retry_count: the branch on the probe (line 139) and the use of the result
\* of restart_tunnel (lines 148 and 150)
LoopCountStep ==
  /\ pc[LoopThread] \in {"branch", "restart_ret"}
  /\ pc'[LoopThread] # pc[LoopThread]

\* C17: no step of a thread of the menu (a check, whatever its probe
\* reports, or a restart) changes retry_count, and retry_count changes only
\* in a step of the loop that uses the result of its own probe or recovery.
C17_CounterOnlyInLoop ==
  [][/\ \A m \in ManualThreads :
          pc'[m] # pc[m] => retry_count' = retry_count
     /\ retry_count' # retry_count => LoopCountStep]_vars

\* a manual check has reported connected while the loop is in the wait
\* after an exhausted tick, and the counter is still at its bound
C17_Witness ==
  /\ \E m \in ManualThreads :
       ManualDone(m) /\ task[m] = "check" /\ ret[m]
  /\ tunnel_connected
  /\ retry_count = MAX_RETRIES
  /\ tick.branch = "exhausted"
  /\ pc[LoopThread] = "sleep_interval"

\* the value retry_count must have, given the value it had when the tick
\* started and what the tick's own probe and own recovery returned
CountOfTick ==
  IF tick.own = "up" /\ tick.probe # "none" THEN 0
  ELSE IF tick.rec = "ok" THEN 0
  ELSE IF tick.rec = "failed" THEN tick.prev + 1
  ELSE tick.prev

\* C18: in every state of every interleaving, the branch the tick took is
\* the one its own probe's result and the counter at the tick's start
\* select, whatever tunnel_connected holds; retry_count is the value at the
\* tick's start with the one update the tick's own results call for applied
\* exactly once; and the loop records a successful recovery exactly when its
\* own restart command was accepted and its own confirming probe reported
\* connected.
C18_TickUsesOwnResults ==
  /\ [](/\ tick.probe # "none" => tick.probe = tick.own
        /\ tick.branch = "connected" => tick.own = "up"
        /\ tick.branch \in {"recovering", "exhausted"} => tick.own = "down"
        /\ tick.branch = "recovering" => CanRetry(tick.prev)
        /\ tick.branch = "exhausted" => ~CanRetry(tick.prev)
        /\ pc[LoopThread] \notin {"idle", "done"} => retry_count = CountOfTick)
  /\ [][(pc[LoopThread] = "restart_ret" /\ pc'[LoopThread] # "restart_ret")
          => (tick'.rec = "ok" <=>
                call[LoopThread] = [cmd |-> "ok", probe |-> "up"])]_vars

\* the tick's probe reported disconnected and its recovery failed, so the
\* counter was incremented once, although a manual action has written
\* tunnel_connected = True in between
C18_Witness ==
  /\ pc[LoopThread] = "sleep_retry"
  /\ tick.own = "down"
  /\ tick.rec = "failed"
  /\ retry_count = tick.prev + 1
  /\ tunnel_connected
  /\ writer.conn \in ManualThreads

\* C19 (as claimed): once the tray icon exists and the first tick of the
\* loop has called update_icon without a fault, the indicator has the
\* colour that call gave it, the colour of the loop's probe.
C19_NoLostUpdateAtStartup ==
  (icon # "None" /\ tick.n = 1 /\ tick.emit # "none" /\ ~tick.fault) =>
     /\ tick.emit = TickColor(tick.own = "up")
     /\ icon = tick.emit

====
